---- MODULE Spec2Model ----
(***************************************************************************)
(* Model of src/audit.mjs: the CSV loader ('data' / 'end' handlers), the   *)
(* sequential orchestrator with its retry loop, and runLighthouseAudit     *)
(* with its audit-versus-timer race.  Every await of the source is one     *)
(* step boundary; the code that runs synchronously after an await resumes  *)
(* belongs to the action that resumes it.                                  *)
(***************************************************************************)
EXTENDS Integers, Sequences, FiniteSets, TLC

\* ---------------------------------------------------------------- constants
maxRetries == 3
TimeoutMsg == "Lighthouse audit timed out"
NavTimeoutMsg == "Navigation timeout of 60000 ms exceeded"
ProtocolErr == "Protocol error"
NoError == "none"
NoScore == -1
NoMetaDescription == "No meta description"
NA == "N/A"

\* ------------------------------------------------------------------- bounds
MaxRows == 2
MaxLoaderRows == 3
MaxPending == 1
MaxLeaked == 1

\* -------------------------------------------------------- strings as tuples
S_example == <<"e","x","a","m","p","l","e",".","c","o","m">>
S_test == <<"h","t","t","p","s",":","/","/","t","e","s","t",".","o","r","g">>
S_upper == <<"H","T","T","P",":","/","/","a">>
S_padded == <<" ","a",".","b"," ">>
S_blank == <<" ">>
S_near == <<"h","t","t","p",":","/","a">>
S_http == <<"h","t","t","p",":","/","/">>
S_https == <<"h","t","t","p","s",":","/","/">>

Row(s) == [url |-> s]
RowNoUrl == [name |-> <<"x">>]

RowValues == {Row(S_example), Row(<<>>), Row(S_test), RowNoUrl}
FairRowValues == {Row(S_example), Row(<<>>)}
LoaderRowValues ==
  RowValues \cup {Row(S_upper), Row(S_padded), Row(S_blank), Row(S_near)}

RECURSIVE SeqsUpTo(_, _)
SeqsUpTo(S, n) ==
  IF n = 0 THEN {<<>>}
  ELSE LET P == SeqsUpTo(S, n - 1)
       IN  P \cup {Append(p, x) : p \in {q \in P : Len(q) = n - 1}, x \in S}

\* ------------------------------------------------------- page / audit inputs
NoPage == [title |-> "", desc |-> <<>>]
Pages == {[title |-> "Home", desc |-> <<"About">>], NoPage}
LhrScores == {<<0, 1>>, <<87, 100>>}
GotoErrors == {NavTimeoutMsg, ProtocolErr}

\* ---------------------------------------------------------- loader helpers
IsSpace(c) == c \in {" ", "\t"}

RECURSIVE TrimStart(_)
TrimStart(s) ==
  IF s # <<>> /\ IsSpace(Head(s)) THEN TrimStart(Tail(s)) ELSE s

RECURSIVE TrimEnd(_)
TrimEnd(s) ==
  IF s # <<>> /\ IsSpace(s[Len(s)]) THEN TrimEnd(SubSeq(s, 1, Len(s) - 1)) ELSE s

Trim(s) == TrimEnd(TrimStart(s))

LowerExact(c) == c

Lower(c) ==
  CASE c = "H" -> "h" [] c = "T" -> "t" [] c = "P" -> "p" [] c = "S" -> "s"
    [] OTHER -> c

HasPrefixI(s, p) ==
  /\ Len(s) >= Len(p)
  /\ \A k \in 1..Len(p) : Lower(s[k]) = p[k]

HasScheme(s) == HasPrefixI(s, S_http) \/ HasPrefixI(s, S_https)

FormatUrl(raw) ==
  LET formattedUrl == Trim(raw)
  IN  IF ~HasScheme(formattedUrl) THEN S_http \o formattedUrl ELSE formattedUrl

TruthyPresent(row) == "url" \in DOMAIN row

Truthy(row) == "url" \in DOMAIN row /\ row.url # <<>>

PushUrl(us, row) == IF Truthy(row) THEN Append(us, FormatUrl(row.url)) ELSE us

\* ------------------------------------------------------ orchestrator helpers
ExhaustedOnAnyTimeout(n, msg) == n = maxRetries \/ msg = TimeoutMsg

ExhaustedNoShortcut(n, msg) == n = maxRetries

ExhaustedAnyTimeout(n, msg) ==
  n = maxRetries \/ (n = 2 /\ msg \in {TimeoutMsg, NavTimeoutMsg})

Exhausted(n, msg) == n = maxRetries \/ (n = 2 /\ msg = TimeoutMsg)

OrNAKeep(s) == s

OrNA(s) == IF s = "" THEN NA ELSE s

ScoreOf(f) == (f[1] * 100) \div f[2]

WriteRowFront(o, r) == <<r>> \o o

WriteRow(o, r) == Append(o, r)

\* -------------------------------------------------------------------- state
VARIABLES
  input,            \* rows of the CSV read stream, released at 'end'
  rd,               \* rows already handed to the 'data' handler
  urls,             \* const urls = []
  pc,               \* position of the single thread of control
  i,                \* index in urls of the URL being processed
  attempt,          \* let attempt
  score, metaTitle, metaDescription,   \* working values of the URL loop body
  page,             \* document loaded by page.goto: title, meta descriptions
  auditTitle, auditDesc,               \* locals of runLighthouseAudit
  lhr,              \* score of the settled race, NoScore if none
  err,              \* error travelling through catch/finally
  open,             \* browsers launched and not closed
  out,              \* rows written to csvStream
  ended,            \* number of csvStream.end() calls
  outcomes,         \* history: outcome of each attempt of the current URL
  closes,           \* history: browser.close() calls for the current URL
  acquired,         \* history: attempts of the current URL that entered try
  pauses,           \* history: 3 s pauses completed for the current URL
  lateAudit,        \* lighthouse promises that lost a race, not yet settled
  lateTimer         \* timers that lost a race, not yet fired

vars == <<input, rd, urls, pc, i, attempt, score, metaTitle, metaDescription,
          page, auditTitle, auditDesc, lhr, err, open, out, ended, outcomes, closes,
          acquired, pauses, lateAudit, lateTimer>>

loaderVars == <<input, rd, urls>>
loopVars == <<i, attempt, score, metaTitle, metaDescription, out, ended, outcomes,
              pauses>>
auditVars == <<page, auditTitle, auditDesc, lhr, err>>
lateVars == <<lateAudit, lateTimer>>

InitWith(rows) ==
  /\ input = rows
  /\ rd = 0
  /\ urls = <<>>
  /\ pc = "read"
  /\ i = 0
  /\ attempt = 0
  /\ score = NoScore
  /\ metaTitle = ""
  /\ metaDescription = ""
  /\ page = NoPage
  /\ auditTitle = ""
  /\ auditDesc = ""
  /\ lhr = NoScore
  /\ err = NoError
  /\ open = 0
  /\ out = <<>>
  /\ ended = 0
  /\ outcomes = <<>>
  /\ closes = 0
  /\ acquired = 0
  /\ pauses = 0
  /\ lateAudit = 0
  /\ lateTimer = 0

Init == \E rows \in SeqsUpTo(RowValues, MaxRows) : InitWith(rows)

FairInit == \E rows \in SeqsUpTo(FairRowValues, MaxRows) : InitWith(rows)

LoaderInit == \E rows \in SeqsUpTo(LoaderRowValues, MaxLoaderRows) : InitWith(rows)

\* ------------------------------------------------------------------- loader
\* .on('data', row => ...)
OnData ==
  /\ pc = "read"
  /\ rd < Len(input)
  /\ rd' = rd + 1
  /\ urls' = PushUrl(urls, input[rd + 1])
  /\ UNCHANGED <<input, pc, open, closes, acquired>>
  /\ UNCHANGED <<loopVars, auditVars, lateVars>>

NextUrlEndsEach ==
  IF i < Len(urls)
  THEN /\ i' = i + 1
       /\ pc' = "delay"
       /\ ended' = ended + 1
  ELSE /\ i' = i
       /\ pc' = "done"
       /\ ended' = ended + 1

\* for (const url of urls): advance to the next URL, or csvStream.end()
NextUrl ==
  IF i < Len(urls)
  THEN /\ i' = i + 1
       /\ pc' = "delay"
       /\ ended' = ended
  ELSE /\ i' = i
       /\ pc' = "done"
       /\ ended' = ended + 1

OnEndEarly ==
  /\ pc = "read"
  /\ input' = <<>>
  /\ rd' = 0
  /\ NextUrl
  /\ UNCHANGED <<urls, attempt, score, metaTitle, metaDescription, out,
                 outcomes, pauses, open, closes, acquired>>
  /\ UNCHANGED <<auditVars, lateVars>>

\* .on('end', async () => ...) up to its first await
OnEnd ==
  /\ pc = "read"
  /\ rd = Len(input)
  /\ input' = <<>>
  /\ rd' = 0
  /\ NextUrl
  /\ UNCHANGED <<urls, attempt, score, metaTitle, metaDescription, out,
                 outcomes, pauses, open, closes, acquired>>
  /\ UNCHANGED <<auditVars, lateVars>>

\* ------------------------------------------------------------- orchestrator
DelayNoReset ==
  /\ pc = "delay"
  /\ attempt' = 1
  /\ outcomes' = <<>>
  /\ closes' = 0
  /\ acquired' = 0
  /\ pauses' = 1
  /\ pc' = "launch"
  /\ UNCHANGED <<loaderVars, i, out, ended, open, score, metaTitle, metaDescription>>
  /\ UNCHANGED <<auditVars, lateVars>>

\* the 3 s courtesy delay resolves: reset the working values, attempt = 1,
\* call runLighthouseAudit up to puppeteer.launch
Delay ==
  /\ pc = "delay"
  /\ score' = NoScore
  /\ metaTitle' = ""
  /\ metaDescription' = ""
  /\ attempt' = 1
  /\ outcomes' = <<>>
  /\ closes' = 0
  /\ acquired' = 0
  /\ pauses' = 1
  /\ pc' = "launch"
  /\ UNCHANGED <<loaderVars, i, out, ended, open>>
  /\ UNCHANGED <<auditVars, lateVars>>

\* csvStream.write({url, score, metaTitle, metaDescription}); next iteration
Write(s, t, d) ==
  /\ out' = WriteRow(out, [url |-> urls[i], score |-> s,
                           metaTitle |-> t, metaDescription |-> d])
  /\ NextUrl

SucceedNormalised(s, t, d) ==
  /\ score' = s
  /\ metaTitle' = OrNA(t)
  /\ metaDescription' = OrNA(d)
  /\ outcomes' = Append(outcomes, "ok")
  /\ attempt' = attempt
  /\ pauses' = pauses
  /\ Write(s, OrNA(t), OrNA(d))

\* runLighthouseAudit returned: destructuring assignment, break, write
Succeed(s, t, d) ==
  /\ score' = s
  /\ metaTitle' = t
  /\ metaDescription' = d
  /\ outcomes' = Append(outcomes, "ok")
  /\ attempt' = attempt
  /\ pauses' = pauses
  /\ Write(s, t, d)

CatchNoBackoff(msg) ==
  /\ outcomes' = Append(outcomes, msg)
  /\ pauses' = pauses
  /\ IF Exhausted(attempt, msg)
     THEN /\ attempt' = attempt
          /\ score' = 0
          /\ metaTitle' = OrNA(metaTitle)
          /\ metaDescription' = OrNA(metaDescription)
          /\ Write(0, OrNA(metaTitle), OrNA(metaDescription))
     ELSE /\ attempt' = attempt + 1
          /\ pc' = "launch"
          /\ UNCHANGED <<score, metaTitle, metaDescription, out, i, ended>>

\* runLighthouseAudit threw: the catch block of the retry loop
Catch(msg) ==
  /\ outcomes' = Append(outcomes, msg)
  /\ attempt' = attempt
  /\ pauses' = pauses
  /\ IF Exhausted(attempt, msg)
     THEN /\ score' = 0
          /\ metaTitle' = OrNA(metaTitle)
          /\ metaDescription' = OrNA(metaDescription)
          /\ Write(0, OrNA(metaTitle), OrNA(metaDescription))
     ELSE /\ pc' = "backoff"
          /\ UNCHANGED <<score, metaTitle, metaDescription, out, i, ended>>

\* the 3 s wait before retrying resolves: attempt++, call runLighthouseAudit
Backoff ==
  /\ pc = "backoff"
  /\ attempt < maxRetries
  /\ attempt' = attempt + 1
  /\ pauses' = pauses + 1
  /\ pc' = "launch"
  /\ UNCHANGED <<loaderVars, i, score, metaTitle, metaDescription, out, ended,
                 outcomes, open, closes, acquired>>
  /\ UNCHANGED <<auditVars, lateVars>>

\* -------------------------------------------------------- runLighthouseAudit
ClearLocals ==
  /\ page' = NoPage
  /\ auditTitle' = ""
  /\ auditDesc' = ""
  /\ lhr' = NoScore
  /\ err' = NoError

\* puppeteer.launch resolves; browser.newPage() is called
LaunchOk ==
  /\ pc = "launch"
  /\ open' = open + 1
  /\ pc' = "newPage"
  /\ UNCHANGED <<loaderVars, loopVars, auditVars, lateVars, closes, acquired>>

LaunchFailEscapes ==
  /\ pc = "launch"
  /\ pc' = "crashed"
  /\ UNCHANGED <<loaderVars, loopVars, auditVars, lateVars, open, closes, acquired>>

\* puppeteer.launch rejects, outside the try: the error reaches the retry loop
LaunchFail ==
  /\ pc = "launch"
  /\ Catch(ProtocolErr)
  /\ ClearLocals
  /\ UNCHANGED <<loaderVars, lateVars, open, closes, acquired>>

\* browser.newPage resolves; the try block is entered, page.goto is called
NewPageOk ==
  /\ pc = "newPage"
  /\ acquired' = acquired + 1
  /\ pc' = "goto"
  /\ UNCHANGED <<loaderVars, loopVars, auditVars, lateVars, open, closes>>

\* browser.newPage rejects, outside the try: no finally, browser stays open
NewPageFail ==
  /\ pc = "newPage"
  /\ open <= MaxLeaked
  /\ Catch(ProtocolErr)
  /\ ClearLocals
  /\ UNCHANGED <<loaderVars, lateVars, open, closes, acquired>>

\* catch (error) { throw error } finally { await browser.close() }
Throw(msg) ==
  /\ err' = msg
  /\ pc' = "close"
  /\ UNCHANGED <<page, auditTitle, auditDesc, lhr>>

GotoOk ==
  /\ pc = "goto"
  /\ page' \in Pages
  /\ pc' = "title"
  /\ UNCHANGED <<loaderVars, loopVars, lateVars, auditTitle, auditDesc, lhr, err,
                 open, closes, acquired>>

GotoFail ==
  /\ pc = "goto"
  /\ \E msg \in GotoErrors : Throw(msg)
  /\ UNCHANGED <<loaderVars, loopVars, lateVars, open, closes, acquired>>

TitleOk ==
  /\ pc = "title"
  /\ auditTitle' = page.title
  /\ pc' = "eval"
  /\ UNCHANGED <<loaderVars, loopVars, lateVars, page, auditDesc, lhr, err, open,
                 closes, acquired>>

TitleFail ==
  /\ pc = "title"
  /\ Throw(ProtocolErr)
  /\ UNCHANGED <<loaderVars, loopVars, lateVars, open, closes, acquired>>

\* page.$eval finds the meta description element and returns its content;
\* then import('lighthouse') is called
EvalOk ==
  /\ pc = "eval"
  /\ page.desc # <<>>
  /\ auditDesc' = Head(page.desc)
  /\ pc' = "import"
  /\ UNCHANGED <<loaderVars, loopVars, lateVars, page, auditTitle, lhr, err, open,
                 closes, acquired>>

EvalFailThrows ==
  /\ pc = "eval"
  /\ page.desc = <<>>
  /\ Throw(ProtocolErr)
  /\ UNCHANGED <<loaderVars, loopVars, lateVars, open, closes, acquired>>

\* page.$eval rejects (no such element): .catch(() => 'No meta description')
EvalFail ==
  /\ pc = "eval"
  /\ page.desc = <<>>
  /\ auditDesc' = NoMetaDescription
  /\ pc' = "import"
  /\ UNCHANGED <<loaderVars, loopVars, lateVars, page, auditTitle, lhr, err, open,
                 closes, acquired>>

\* import resolves: lighthouse() and the timer are started, Promise.race awaited
ImportOk ==
  /\ pc = "import"
  /\ pc' = "race"
  /\ UNCHANGED <<loaderVars, loopVars, auditVars, lateVars, open, closes, acquired>>

ImportFail ==
  /\ pc = "import"
  /\ Throw(ProtocolErr)
  /\ UNCHANGED <<loaderVars, loopVars, lateVars, open, closes, acquired>>

\* lighthouse resolves first with a report; the timer stays armed
RaceAudit ==
  /\ pc = "race"
  /\ lateAudit + lateTimer < MaxPending
  /\ \E f \in LhrScores : lhr' = ScoreOf(f)
  /\ lateTimer' = lateTimer + 1
  /\ pc' = "close"
  /\ UNCHANGED <<loaderVars, loopVars, page, auditTitle, auditDesc, err,
                 lateAudit, open, closes, acquired>>

\* lighthouse rejects first (or resolves without a report); the timer stays armed
RaceAuditFail ==
  /\ pc = "race"
  /\ lateAudit + lateTimer < MaxPending
  /\ lateTimer' = lateTimer + 1
  /\ Throw(ProtocolErr)
  /\ UNCHANGED <<loaderVars, loopVars, lateAudit, open, closes, acquired>>

\* the timer rejects first; the lighthouse promise stays pending
RaceTimeout ==
  /\ pc = "race"
  /\ lateAudit + lateTimer < MaxPending
  /\ lateAudit' = lateAudit + 1
  /\ Throw(TimeoutMsg)
  /\ UNCHANGED <<loaderVars, loopVars, lateTimer, open, closes, acquired>>

\* close() calls made so far for the URL, after the finally block ran with
\* the pending error e: one call, on the error path and on the return path
CloseCallsDouble(c, e) == IF e # NoError THEN c + 2 ELSE c + 1

CloseCalls(c, e) == c + 1

\* finally: browser.close() resolves; the function returns or rethrows
CloseOk ==
  /\ pc = "close"
  /\ closes' = CloseCalls(closes, err)
  /\ open' = open - 1
  /\ IF err = NoError THEN Succeed(lhr, auditTitle, auditDesc) ELSE Catch(err)
  /\ ClearLocals
  /\ UNCHANGED <<loaderVars, lateVars, acquired>>

\* finally: browser.close() rejects; its error replaces the pending outcome
CloseFail ==
  /\ pc = "close"
  /\ closes' = CloseCalls(closes, err)
  /\ open' \in {open - 1} \cup {o \in {open} : o <= MaxLeaked}
  /\ Catch(ProtocolErr)
  /\ ClearLocals
  /\ UNCHANGED <<loaderVars, lateVars, acquired>>

\* the loser of an earlier race settles: Promise.race already settled
LateAudit ==
  /\ lateAudit > 0
  /\ lateAudit' = lateAudit - 1
  /\ UNCHANGED <<loaderVars, loopVars, auditVars, pc, lateTimer, open, closes,
                 acquired>>

LateTimer ==
  /\ lateTimer > 0
  /\ lateTimer' = lateTimer - 1
  /\ UNCHANGED <<loaderVars, loopVars, auditVars, pc, lateAudit, open, closes,
                 acquired>>

Next ==
  \/ OnData \/ OnEnd \/ Delay \/ Backoff
  \/ LaunchOk \/ LaunchFail \/ NewPageOk \/ NewPageFail
  \/ GotoOk \/ GotoFail \/ TitleOk \/ TitleFail \/ EvalOk \/ EvalFail
  \/ ImportOk \/ ImportFail \/ RaceAudit \/ RaceAuditFail \/ RaceTimeout
  \/ CloseOk \/ CloseFail \/ LateAudit \/ LateTimer

Spec == Init /\ [][Next]_vars

\* Every awaited promise settles and the event loop runs every continuation
\* that is ready: some enabled step is eventually taken.
FairSpec == FairInit /\ [][Next]_vars /\ WF_vars(Next)

LoaderNext == OnData \/ OnEnd

LoaderSpec == LoaderInit /\ [][LoaderNext]_vars

\* ------------------------------------------------------------ claim helpers
\* The retry loop of URL number Len(out) has ended and its row is written;
\* outcomes, closes and acquired still describe that URL.
UrlFinished == pc \in {"delay", "done"} /\ out # <<>>

LastOutcome == outcomes[Len(outcomes)]

LastRow == out[Len(out)]

AllOutcomes(S) == outcomes # <<>> /\ \A k \in 1..Len(outcomes) : outcomes[k] \in S

Failures == {TimeoutMsg, NavTimeoutMsg, ProtocolErr}

SentinelRow(u) ==
  [url |-> u, score |-> 0, metaTitle |-> NA, metaDescription |-> NA]

\* C1: the rows written so far are, in order, the rows of the first loaded
\* URLs, and when the run completes there is exactly one row per loaded URL,
\* in the order of the loaded sequence.
C1_OneRowPerUrlInOrder ==
  /\ Len(out) <= Len(urls)
  /\ \A k \in 1..Len(out) : out[k].url = urls[k]
  /\ pc = "done" => Len(out) = Len(urls)

C1_Witness ==
  /\ pc = "done"
  /\ Len(out) = 2
  /\ out[1].url # out[2].url
  /\ out[1] = SentinelRow(urls[1])
  /\ out[2].score = 87
  /\ outcomes = <<TimeoutMsg, NavTimeoutMsg, "ok">>

\* C2: when every attempt of a URL fails with exactly the timeout message,
\* the URL is finished after 2 invocations of the Audit Runner: there is
\* never a third, and the loop does not end after the first.
C2_TimeoutsExhaustAtTwo ==
  AllOutcomes({TimeoutMsg}) =>
    /\ Len(outcomes) <= 2
    /\ (Len(outcomes) = 2) <=> UrlFinished
    /\ UrlFinished => LastRow.score = 0

C2_Witness ==
  /\ UrlFinished
  /\ outcomes = <<TimeoutMsg, TimeoutMsg>>
  /\ LastRow = SentinelRow(urls[Len(out)])

\* C3: when every attempt of a URL fails with a message other than the
\* timeout string (a navigation timeout included), the URL is finished only
\* after exactly 3 invocations of the Audit Runner.
C3_OtherFailuresTakeThree ==
  AllOutcomes(Failures \ {TimeoutMsg}) =>
    /\ Len(outcomes) <= maxRetries
    /\ (Len(outcomes) = maxRetries) <=> UrlFinished

C3_Witness ==
  /\ UrlFinished
  /\ outcomes = <<NavTimeoutMsg, NavTimeoutMsg, NavTimeoutMsg>>
  /\ LastRow.score = 0

\* C4: the step in which an attempt returns writes the row holding exactly
\* the values that attempt returned and ends the retry loop; once a URL has a
\* successful attempt no further attempt is made for it.
C4_SuccessRecordsReturnedValues ==
  [][/\ (outcomes' # outcomes /\ outcomes' # <<>>
           /\ outcomes'[Len(outcomes')] = "ok") =>
          /\ out' = Append(out, [url |-> urls[i], score |-> lhr,
                                 metaTitle |-> auditTitle,
                                 metaDescription |-> auditDesc])
          /\ pc' \in {"delay", "done"}
     /\ (\E k \in 1..Len(outcomes) : outcomes[k] = "ok") =>
          /\ outcomes' \in {outcomes, <<>>}
          /\ pc \in {"delay", "done"}]_vars

C4_Witness ==
  /\ UrlFinished
  /\ outcomes = <<ProtocolErr, NavTimeoutMsg, "ok">>
  /\ LastRow.score = 87
  /\ LastRow.metaTitle = ""
  /\ LastRow.metaDescription = NoMetaDescription

\* C5 (as stated): browser.close() is called exactly once for each URL,
\* whatever the outcomes of its attempts.
C5_OneClosePerUrl == UrlFinished => closes = 1

\* C5 (amended): browser.close() is called exactly once for each attempt that
\* entered the try block, whatever its outcome; a finished URL has as many
\* close() calls as it had such attempts, between 0 and 3.
C5_OneClosePerAcquiredAttempt ==
  /\ closes \in 0..maxRetries
  /\ IF pc \in {"goto", "title", "eval", "import", "race", "close"}
     THEN acquired = closes + 1
     ELSE acquired = closes
  /\ UrlFinished => acquired <= Len(outcomes)

C5_Witness ==
  /\ UrlFinished
  /\ outcomes = <<TimeoutMsg, TimeoutMsg>>
  /\ closes = 2

\* C6: at most one browser is open in every state, and none is open when the
\* processing of the next URL begins or when the run has completed.
C6_AtMostOneSessionOpen ==
  /\ open <= 1
  /\ pc \in {"delay", "done"} => open = 0

\* C7: every attempt that launched a browser calls browser.close() exactly
\* once before it returns or throws; an attempt that launched none calls it
\* not at all.
C7_AcquiredSessionReleasedOnce ==
  [][(outcomes' # outcomes /\ outcomes' # <<>>) =>
       IF pc \in {"newPage", "close"}
       THEN closes' = closes + 1
       ELSE closes' = closes]_vars

\* C8: a URL whose last attempt failed is recorded with score 0 and "N/A"
\* for both metadata fields, and the loop moves on: it waits for the next
\* URL, or the run completes if that URL was the last one.
C8_ExhaustedRecordsSentinelAndProceeds ==
  (UrlFinished /\ LastOutcome # "ok") =>
    /\ LastRow = SentinelRow(urls[Len(out)])
    /\ pc = "delay" => (i = Len(out) + 1 /\ i <= Len(urls))
    /\ pc = "done" => (i = Len(out) /\ i = Len(urls))

C8_Witness ==
  /\ pc = "done"
  /\ Len(out) = 2
  /\ out[1] = SentinelRow(urls[1])
  /\ out[2].score = 87
  /\ out[2].metaTitle = "Home"

\* C9: a URL that is exhausted after exactly 2 invocations of the Audit
\* Runner had both of its attempts fail with exactly the timeout message.
C9_EarlyExitOnlyAfterTwoTimeouts ==
  (UrlFinished /\ LastOutcome # "ok" /\ Len(outcomes) = 2) =>
    (outcomes[1] = TimeoutMsg /\ outcomes[2] = TimeoutMsg)

\* C10: while the input is read, the loaded sequence holds, in row order,
\* one entry for each consumed row whose url field is present and non-empty,
\* and nothing for the other rows.
HasUrl(row) == "url" \in DOMAIN row /\ Len(row.url) > 0

RECURSIVE EntriesOf(_)
EntriesOf(rows) ==
  IF rows = <<>> THEN <<>>
  ELSE LET rest == EntriesOf(Tail(rows))
       IN  IF HasUrl(Head(rows)) THEN <<FormatUrl(Head(rows).url)>> \o rest
           ELSE rest

C10_LoaderSkipsMissingOrEmpty ==
  pc = "read" => urls = EntriesOf(SubSeq(input, 1, rd))

C10_Witness ==
  /\ pc = "read"
  /\ input = <<Row(S_example), Row(<<>>), Row(S_test)>>
  /\ rd = 3
  /\ urls = <<S_http \o S_example, S_test>>
\* C11: every entry loaded from a consumed row is the trimmed url value when
\* that value starts with http:// or https:// in any letter case, and
\* "http://" followed by the trimmed value otherwise; so every loaded URL
\* carries a scheme and normalising it again returns it unchanged.
UpperOf(c) ==
  CASE c = "h" -> "H" [] c = "t" -> "T" [] c = "p" -> "P" [] c = "s" -> "S"
    [] OTHER -> c

StartsWithAnyCase(s, p) ==
  /\ Len(s) >= Len(p)
  /\ \A k \in 1..Len(p) : s[k] \in {p[k], UpperOf(p[k])}

CarriesScheme(s) == StartsWithAnyCase(s, S_http) \/ StartsWithAnyCase(s, S_https)

NormalisedFrom(raw) ==
  IF CarriesScheme(Trim(raw)) THEN Trim(raw) ELSE S_http \o Trim(raw)

RECURSIVE UrlValues(_)
UrlValues(rows) ==
  IF rows = <<>> THEN <<>>
  ELSE IF HasUrl(Head(rows)) THEN <<Head(rows).url>> \o UrlValues(Tail(rows))
       ELSE UrlValues(Tail(rows))

C11_NormalisationAddsSchemeOnce ==
  pc = "read" =>
    LET raws == UrlValues(SubSeq(input, 1, rd))
    IN  /\ Len(urls) = Len(raws)
        /\ \A k \in 1..Len(urls) :
             /\ urls[k] = NormalisedFrom(raws[k])
             /\ CarriesScheme(urls[k])
             /\ FormatUrl(urls[k]) = urls[k]

C11_Witness ==
  /\ pc = "read"
  /\ input = <<Row(S_upper), Row(S_padded), Row(S_near)>>
  /\ rd = 3
  /\ urls = <<S_upper, S_http \o <<"a", ".", "b">>, S_http \o S_near>>

\* C20: every loaded URL has at least one character after its http:// or
\* https:// scheme.
C20_LoadedUrlHasRemainder ==
  \A k \in 1..Len(urls) :
    /\ StartsWithAnyCase(urls[k], S_http) => Len(urls[k]) > Len(S_http)
    /\ StartsWithAnyCase(urls[k], S_https) => Len(urls[k]) > Len(S_https)
\* C12: the 'end' handler starts only when every input row has been handed
\* to the 'data' handler, and it starts once; while rows are still read no
\* attempt has been made, no browser launched and no row written; once
\* processing has begun the loaded sequence no longer changes.
C12_CompletionOnceAfterAllRows ==
  [][/\ (pc = "read" /\ pc' # "read") => rd = Len(input)
     /\ pc # "read" => (pc' # "read" /\ urls' = urls)
     /\ pc' = "read" => (/\ out' = <<>> /\ outcomes' = <<>> /\ attempt' = 0
                         /\ open' = 0 /\ pauses' = 0)]_vars

C12_Witness ==
  /\ pc = "close"
  /\ i = 2
  /\ Len(urls) = 2
  /\ urls[1] # urls[2]
  /\ Len(out) = 1

\* C13: for a finished URL the number of Audit Runner invocations is 1 when
\* attempt 1 returned; 2 when attempt 1 failed and attempt 2 returned or
\* failed with exactly the timeout message; 3 in every other case.  While a
\* URL is unfinished none of these ending conditions has occurred yet.
InvocationsFor(h) ==
  IF h[1] = "ok" THEN 1
  ELSE IF Len(h) >= 2 /\ h[2] \in {"ok", TimeoutMsg} THEN 2
  ELSE 3

C13_InvocationCountTable ==
  /\ Len(outcomes) \in 0..3
  /\ UrlFinished => Len(outcomes) = InvocationsFor(outcomes)
  /\ (pc \notin {"read", "delay", "done"} /\ outcomes # <<>>) =>
       /\ Len(outcomes) < 3
       /\ \A k \in 1..Len(outcomes) : outcomes[k] # "ok"
       /\ Len(outcomes) = 2 => outcomes[2] # TimeoutMsg

C13_Witness ==
  /\ UrlFinished
  /\ outcomes = <<TimeoutMsg, ProtocolErr, TimeoutMsg>>

\* C14: an Audit Runner invocation starts only in the step in which a 3 s
\* pause ends; during attempt n of a URL exactly n pauses have been taken for
\* it, and a finished URL has had as many pauses as invocations.
InAttempt ==
  pc \in {"launch", "newPage", "goto", "title", "eval", "import", "race", "close"}

C14_PauseBeforeEveryInvocation ==
  [][/\ (pc' = "launch" /\ pc # "launch") => pc \in {"delay", "backoff"}
     /\ InAttempt' => (pauses' = attempt' /\ Len(outcomes') = attempt' - 1)
     /\ pc' = "backoff" => pauses' = Len(outcomes')
     /\ UrlFinished' => pauses' = Len(outcomes')]_vars

C14_Witness ==
  /\ UrlFinished
  /\ pauses = 3
  /\ outcomes = <<ProtocolErr, NavTimeoutMsg, "ok">>
\* C15: the race leaves exactly one loser pending and its winner alone fixes
\* the outcome of the attempt: the timeout message when the timer won, the
\* lighthouse result or error otherwise, after exactly one browser.close();
\* a loser that settles later changes nothing but its own pending state.
C15_RaceWinnerDecidesAttempt ==
  [][/\ (pc = "race" /\ pc' = "close") =>
          /\ lateAudit' + lateTimer' = lateAudit + lateTimer + 1
          /\ lateAudit' > lateAudit => err' = TimeoutMsg
          /\ lateTimer' > lateTimer => err' # TimeoutMsg
     /\ (pc = "close" /\ pc' # "close" /\ (err = TimeoutMsg \/ lhr # NoScore)) =>
          /\ closes' = closes + 1
          /\ outcomes' = Append(outcomes, IF err = NoError THEN "ok" ELSE err)
     /\ (lateAudit' < lateAudit \/ lateTimer' < lateTimer) =>
          UNCHANGED <<loaderVars, loopVars, auditVars, pc, open, closes,
                      acquired>>]_vars
\* C16: during the attempts of a URL the working values are the reset ones
\* (no score, empty title and description), and the row written for the URL
\* is either the triple its own successful attempt returned or the sentinel:
\* nothing of an earlier URL enters it.
C16_RowDependsOnOwnAttemptsOnly ==
  [][/\ (InAttempt' \/ pc' = "backoff") =>
          (score' = NoScore /\ metaTitle' = "" /\ metaDescription' = "")
     /\ out' # out =>
          out' = Append(out,
                        IF outcomes'[Len(outcomes')] = "ok"
                        THEN [url |-> urls[i], score |-> lhr,
                              metaTitle |-> auditTitle,
                              metaDescription |-> auditDesc]
                        ELSE SentinelRow(urls[i]))]_vars

C16_Witness ==
  /\ Len(out) = 2
  /\ out[1].score = 87
  /\ out[1].metaTitle = "Home"
  /\ out[1].metaDescription = "About"
  /\ out[2] = SentinelRow(urls[2])

\* C17: when the page has no meta description the extraction step does not
\* fail the attempt: it goes on to the audit with "No meta description", and
\* if the attempt then returns, the row holds that string and the audit score.
C17_MissingDescriptionIsNotFatal ==
  [][/\ (pc = "eval" /\ pc' # "eval") =>
          /\ pc' = "import"
          /\ err' = NoError
          /\ auditDesc' = IF page.desc = <<>> THEN NoMetaDescription
                          ELSE Head(page.desc)
     /\ (out' # out /\ page.desc = <<>> /\ outcomes'[Len(outcomes')] = "ok") =>
          /\ out'[Len(out')].metaDescription = NoMetaDescription
          /\ out'[Len(out')].score = lhr
          /\ lhr # NoScore]_vars

C17_Witness ==
  /\ UrlFinished
  /\ LastOutcome = "ok"
  /\ Len(outcomes) = 1
  /\ LastRow.metaDescription = NoMetaDescription
  /\ LastRow.score = 87
\* C18: when every awaited call eventually settles, the run terminates
\* whatever the attempts do: eventually every loaded URL has its row and the
\* output stream has been ended.
C18_RunTerminates ==
  <>(pc = "done" /\ Len(out) = Len(urls) /\ ended = 1)

C18_Witness ==
  /\ pc = "done"
  /\ ended = 1
  /\ Len(out) = 2
  /\ out[1] = SentinelRow(urls[1])
  /\ outcomes = <<NavTimeoutMsg, ProtocolErr, TimeoutMsg>>
  /\ closes = 2

\* C19: csvStream.end() is called once, in the step that completes the run
\* and only when every loaded URL has its row; no row is written afterwards;
\* while URL number i waits or is attempted, exactly the rows of the i - 1
\* URLs before it have been written.
C19_StreamEndedOnceAfterLastRow ==
  [][/\ ended' \in {0, 1}
     /\ ended' = 1 <=> pc' = "done"
     /\ ended' = 1 => Len(out') = Len(urls')
     /\ ended = 1 => (out' = out /\ ended' = 1)
     /\ pc' \notin {"read", "done"} => Len(out') = i' - 1]_vars

C19_Witness ==
  /\ pc = "done"
  /\ ended = 1
  /\ Len(out) = 2
  /\ i = 2
====
